---- MODULE Spec2Model ----
(***************************************************************************)
(* Model of the note-timeline playback engine of music_maker.py:           *)
(* the transport (on_play / on_stop / playback_loop), the worker-to-UI     *)
(* publication through wx.CallAfter, and the pure helpers snap_to_scale    *)
(* and the click quantizer.                                                *)
(*                                                                         *)
(* Units.  The playback position is a float advanced by 0.1 beat per      *)
(* tick; here it is counted in ticks (1 tick = 0.1 beat), so length_beats  *)
(* is length * numerator * TicksPerBeat ticks.  Click times are counted in *)
(* 1/UnitsPerBeat beat, so the grids 0.25, 0.5 and 1.0 beat are 10, 20 and *)
(* 40 units and every halfway point of a grid is representable.            *)
(*                                                                         *)
(* Atomicity.  Handlers that run on the UI thread (on_play, on_stop, the   *)
(* callbacks wx.CallAfter queued) are one action each: the UI thread runs  *)
(* them one at a time.  The worker thread is split at every read and write *)
(* of the shared fields is_playing and playback_position, because the UI   *)
(* thread can run between any two of them.                                 *)
(***************************************************************************)
EXTENDS Integers, Sequences, FiniteSets

VARIABLES
    project,            \* MusicProject: length, time_signature (numerator)
    is_playing,         \* MusicMakerFrame.is_playing
    playback_position,  \* MusicMakerFrame.playback_position, in ticks
    status,             \* the transport text of status_bar
    threads,            \* the playback_loop threads on_play started
    pending,            \* callbacks queued by wx.CallAfter, oldest first
    pubLog,             \* (history) labels handed to wx.CallAfter, numbered in order
    obsLog,             \* (history) labels position_text.SetLabel showed, in order
    calls,              \* user calls still to come (liveness runs only)
    call,               \* (history) the last call: its name and what it was given
    result,             \* the value a helper call returned, or NoResult
    heap,               \* the Track objects, by identity
    current_track,      \* MusicMakerFrame.current_track: a Track or None
    audio_enabled,      \* MusicMakerFrame.audio_enabled
    message_box,        \* the wx.MessageBox the last handler showed, if any
    disk,               \* the file save_project wrote last
    sound               \* the Sound play_midi_note played last

vars == <<project, is_playing, playback_position, status, threads, pending,
          pubLog, obsLog, calls, call, result, heap, current_track,
          audio_enabled, message_box, disk, sound>>

transportVars == <<project, is_playing, playback_position, status, threads,
                   pending, pubLog, obsLog, calls>>

helperVars == <<call, result>>

editVars == <<heap, current_track, audio_enabled, message_box, disk, sound>>

-----------------------------------------------------------------------------
(* Bounds and program constants *)

\* playback_loop threads that exist at the same time
MaxThreads == 2

\* longest project played, in bars
MaxBars == 1

\* callbacks wx.CallAfter holds at the same time
MaxPending == 2

\* publications recorded in pubLog
MaxLog == 3

\* user calls in a liveness run
MaxCalls == 3

\* ticks the position is followed beyond max_beats
MaxOvershoot == 2

\* playback_position += 0.1: ten ticks to the beat
TicksPerBeat == 10

\* int((playback_position % 1) * 480): 480 label ticks per beat
LabelTicksPerBeat == 480

\* click times are counted in 1/40 beat
UnitsPerBeat == 40

\* largest click time tried, in 1/40 beat, either side of 0
MaxClick == 100

\* largest pitch handed to snap_to_scale
MaxNote == 130

\* notes in a list handed to Track.get_notes_in_range
MaxNotes == 2

\* Track objects alive at the same time
MaxTracks == 3

NoResult == << >>

ThreadIds == 1..MaxThreads

\* beats per bar of the projects played (time_signature[0])
Numerators == {1, 2}

-----------------------------------------------------------------------------
(* MusicProject *)

\* MusicProject.__init__
MusicProject ==
    [tracks |-> << >>, tempo |-> 120, time_signature |-> <<4, 4>>,
     key |-> "C", length |-> 16, project_name |-> "Untitled"]

TrackIds == 1..MaxTracks

\* the projects played: as constructed, with the default track, but for
\* length and time_signature, which load_project sets from a file
Projects ==
    [length : 1..MaxBars, time_signature : Numerators \X {4},
     tracks : {<<1>>}, tempo : {MusicProject.tempo}, key : {MusicProject.key},
     project_name : {MusicProject.project_name}]

\* max_beats = self.project.length * self.project.time_signature[0], in ticks
MaxBeats(p) == p.length * p.time_signature[1] * TicksPerBeat

-----------------------------------------------------------------------------
(* Note and Track; start_time and duration are counted in 1/40 beat *)

\* Note.__init__
Note(pitch, duration, start_time, velocity) ==
    [pitch |-> pitch, duration |-> duration, start_time |-> start_time,
     velocity |-> velocity]

\* Track.__init__, channel left at its default
Track(name, instrument) ==
    [name |-> name, instrument |-> instrument, channel |-> 0, notes |-> << >>,
     volume |-> 80, muted |-> FALSE, solo |-> FALSE]

\* current_track is None
None == 0

\* nothing was played yet
NoSound == [pitch |-> None, velocity |-> 0]

\* what a place of the heap holds when no Track is there
Freed == [Track("", 0) EXCEPT !.volume = 0]

\* the Track objects whose notes a playback_loop thread is going through
Held(ts) == {ts[t].track : t \in DOMAIN ts} \ {None}

\* the Track objects something still refers to: the project's list,
\* current_track and the threads
Referenced(p, c, ts) ==
    {p.tracks[i] : i \in 1..Len(p.tracks)} \cup ({c} \ {None}) \cup Held(ts)

\* the objects nothing refers to are gone
Collect(h, p, c, ts) ==
    [id \in TrackIds |-> IF id \in Referenced(p, c, ts) THEN h[id] ELSE Freed]

\* the place of the next Track created, given the places in use
NewTrack(used) ==
    CHOOSE id \in TrackIds \ used : \A other \in TrackIds \ used : id <= other

\* the notes of the range with the end of a note on the edge counted in
InRangeOrTouching(notes, start_time, end_time) ==
    SelectSeq(notes, LAMBDA note :
        /\ note.start_time < end_time
        /\ note.start_time + note.duration >= start_time)

\* Track.get_notes_in_range, of the list self.notes
get_notes_in_range(notes, start_time, end_time) ==
    SelectSeq(notes, LAMBDA note :
        /\ note.start_time < end_time
        /\ note.start_time + note.duration > start_time)

-----------------------------------------------------------------------------
(* The transport *)

\* a thread: where it is, and its locals time_per_beat and max_beats, the
\* position loaded for += (reg), and in play_notes_at_position the argument
\* position, the list gone through (track), how far (i), active_notes as far
\* as not yet played; and (history) the tempo of the project when the tick
\* began, whether a play_midi_note of this tick raised, the notes the loop
\* over the list has come to (seen), the notes that have been in the list
\* ever since the loop began (kept), and the run the thread was started for,
\* told by the calls left after the play() that started it
DeadThread ==
    [pc |-> "dead", time_per_beat |-> 0, max_beats |-> 0, tempo_at_top |-> 0,
     reg |-> 0, position |-> 0, track |-> None, i |-> 0, active |-> << >>,
     raised |-> FALSE, seen |-> << >>, kept |-> {}, run |-> 0]

\* f"{measures}:{beats}:{ticks}" for a position of pos ticks
PositionLabel(pos) ==
    LET numerator == project.time_signature[1]
        beat      == pos \div TicksPerBeat
    IN  << (beat \div numerator) + 1,
           (beat % numerator) + 1,
           ((pos % TicksPerBeat) * LabelTicksPerBeat) \div TicksPerBeat >>

\* MusicMakerFrame.__init__, but for the project and for audio_enabled, which
\* is True when pygame is there and pygame.mixer.init() worked
FrameInit ==
    /\ is_playing = FALSE
    /\ playback_position = 0
    /\ status = "Ready"
    /\ threads = [t \in ThreadIds |-> DeadThread]
    /\ pending = << >>
    /\ pubLog = << >>
    /\ obsLog = << >>
    /\ calls = MaxCalls
    /\ heap = [id \in TrackIds |->
                 IF id = 1 THEN Track("Track 1", 0) ELSE Freed]
    /\ current_track = 1
    /\ message_box = "none"
    /\ disk = [json |-> "none"]
    /\ sound = NoSound

\* the transport is played without audio
TransportInit ==
    /\ project \in Projects
    /\ FrameInit
    /\ audio_enabled = FALSE

\* threading.Thread(target=self.playback_loop).start() on the first free slot
StartThread(t) ==
    /\ threads[t].pc = "dead"
    /\ \A u \in ThreadIds : u < t => threads[u].pc # "dead"
    /\ threads' = [threads EXCEPT ![t] = [DeadThread EXCEPT !.pc = "start",
                                                            !.run = calls']]

on_play_resuming ==
    IF ~is_playing
    THEN /\ is_playing' = TRUE
         /\ playback_position' = playback_position
         /\ \E t \in ThreadIds : StartThread(t)
         /\ status' = "Playing..."
         /\ UNCHANGED <<project, pending, pubLog, obsLog>>
    ELSE /\ is_playing' = FALSE
         /\ status' = "Paused"
         /\ UNCHANGED <<project, playback_position, threads, pending,
                        pubLog, obsLog>>

\* on_play: start playback from position 0, or pause when already playing
on_play ==
    IF ~is_playing
    THEN /\ is_playing' = TRUE
         /\ playback_position' = 0
         /\ \E t \in ThreadIds : StartThread(t)
         /\ status' = "Playing..."
         /\ UNCHANGED <<project, pending, pubLog, obsLog>>
    ELSE /\ is_playing' = FALSE
         /\ status' = "Paused"
         /\ UNCHANGED <<project, playback_position, threads, pending, pubLog, obsLog>>

\* on_stop: clear the flag and reset the position
on_stop ==
    /\ is_playing' = FALSE
    /\ playback_position' = 0
    /\ status' = "Stopped"

\* the user presses Play/Pause
UserPlay(counted) ==
    /\ counted => calls > 0
    /\ calls' = IF counted THEN calls - 1 ELSE calls
    /\ on_play
    /\ call' = IF counted
               THEN [fn |-> "on_play", was_playing |-> is_playing,
                     position |-> playback_position]
               ELSE call
    /\ UNCHANGED <<result, editVars>>

\* the user presses Stop
UserStop(counted) ==
    /\ counted => calls > 0
    /\ on_stop
    /\ calls' = IF counted THEN calls - 1 ELSE calls
    /\ call' = IF counted
               THEN [fn |-> "on_stop", was_playing |-> is_playing,
                     position |-> playback_position]
               ELSE call
    /\ UNCHANGED <<project, threads, pending, pubLog, obsLog, result>>
    /\ UNCHANGED editVars

-----------------------------------------------------------------------------
(* playback_loop, one action per access to the shared fields *)

Goto(t, label) == threads' = [threads EXCEPT ![t].pc = label]

\* beats_per_minute = self.project.tempo; beats_per_second =
\* beats_per_minute / 60.0; time_per_beat = 1.0 / beats_per_second, in
\* milliseconds (a whole number of them for the tempos tried)
TimePerBeat(beats_per_minute) == (60 * 1000) \div beats_per_minute

\* time.sleep(time_per_beat * 0.1): the time slept, in milliseconds
SleepInterval(time_per_beat) == time_per_beat \div 10

\* the bound of the loop written back to the project
LoopStartStoring(t) ==
    /\ threads[t].pc = "start"
    /\ threads' = [threads EXCEPT ![t].pc = "test",
                                  ![t].time_per_beat = TimePerBeat(project.tempo),
                                  ![t].max_beats = MaxBeats(project)]
    /\ project' = [project EXCEPT !.length = MaxBeats(project)]
    /\ UNCHANGED <<is_playing, playback_position, status, pending, pubLog, obsLog, calls>>
    /\ UNCHANGED helperVars
    /\ UNCHANGED editVars

\* the locals time_per_beat and max_beats, set before the loop
LoopStart(t) ==
    /\ threads[t].pc = "start"
    /\ threads' = [threads EXCEPT ![t].pc = "test",
                                  ![t].time_per_beat = TimePerBeat(project.tempo),
                                  ![t].max_beats = MaxBeats(project)]
    /\ UNCHANGED <<project, is_playing, playback_position, status, pending, pubLog, obsLog, calls>>
    /\ UNCHANGED helperVars
    /\ UNCHANGED editVars

\* while self.is_playing ...
LoopTestPlaying(t) ==
    /\ threads[t].pc = "test"
    /\ threads' = [threads EXCEPT
                      ![t].pc = IF is_playing THEN "test_position" ELSE "exit",
                      ![t].tempo_at_top = project.tempo]
    /\ UNCHANGED <<project, is_playing, playback_position, status, pending, pubLog, obsLog, calls>>
    /\ UNCHANGED helperVars
    /\ UNCHANGED editVars

\* ... and self.playback_position < max_beats:
LoopTestPosition(t) ==
    /\ threads[t].pc = "test_position"
    /\ Goto(t, IF playback_position < threads[t].max_beats
               THEN "publish" ELSE "exit")
    /\ UNCHANGED <<project, is_playing, playback_position, status, pending, pubLog, obsLog, calls>>
    /\ UNCHANGED helperVars
    /\ UNCHANGED editVars

\* wx.CallAfter(self.position_text.SetLabel, f"{measures}:{beats}:{ticks}"):
\* the label is computed from the position and handed to wx in one step, so
\* the order of pubLog is the order of the wx.CallAfter calls
Publish(t, logged) ==
    /\ threads[t].pc = "publish"
    /\ Len(pending) < MaxPending
    /\ logged => Len(pubLog) < MaxLog
    /\ LET seq == IF logged THEN Len(pubLog) + 1 ELSE 0
           published == [seq |-> seq,
                         label |-> PositionLabel(playback_position)]
       IN  /\ pending' = Append(pending, [callback |-> "SetLabel", run |-> 0,
                                          seq |-> published.seq,
                                          label |-> published.label])
           /\ pubLog' = IF logged THEN Append(pubLog, published) ELSE pubLog
    /\ Goto(t, IF audio_enabled THEN "notes" ELSE "read")
    /\ UNCHANGED <<project, is_playing, playback_position, status, obsLog, calls>>
    /\ UNCHANGED helperVars
    /\ UNCHANGED editVars

\* self.playback_position += 0.1, the load
Advance(reg) == reg + 1

AdvanceRead(t) ==
    /\ threads[t].pc = "read"
    /\ threads' = [threads EXCEPT ![t].pc = "write",
                                  ![t].reg = playback_position]
    /\ UNCHANGED <<project, is_playing, playback_position, status, pending, pubLog, obsLog, calls>>
    /\ UNCHANGED helperVars
    /\ UNCHANGED editVars

\* self.playback_position += 0.1, the store; then time.sleep and the next test
AdvanceWrite(t) ==
    /\ threads[t].pc = "write"
    /\ Advance(threads[t].reg) <= threads[t].max_beats + MaxOvershoot
    /\ playback_position' = Advance(threads[t].reg)
    /\ threads' = [threads EXCEPT ![t].pc = "test", ![t].reg = 0,
                                  ![t].tempo_at_top = 0]
    /\ UNCHANGED <<project, is_playing, status, pending,
                   pubLog, obsLog, calls>>
    /\ UNCHANGED helperVars
    /\ UNCHANGED editVars

\* if self.is_playing: wx.CallAfter(self.on_stop, None); the thread ends
LoopExit(t) ==
    /\ threads[t].pc = "exit"
    /\ is_playing => Len(pending) < MaxPending
    /\ pending' = IF is_playing
                  THEN Append(pending, [callback |-> "on_stop",
                                        run |-> threads[t].run, seq |-> 0,
                                        label |-> <<0, 0, 0>>])
                  ELSE pending
    /\ threads' = [threads EXCEPT ![t] = DeadThread]
    /\ UNCHANGED <<project, is_playing, playback_position, status, pubLog, obsLog, calls>>
    /\ UNCHANGED helperVars
    /\ UNCHANGED editVars

\* play_midi_note: nothing without audio; with it the Sound is made and
\* played, unless numpy or pygame raises, which "except Exception: pass"
\* swallows
play_midi_note(midi_note, velocity, outcome) ==
    sound' = IF audio_enabled /\ outcome = "played"
             THEN [pitch |-> midi_note, velocity |-> velocity]
             ELSE sound

\* what may become of a synthesis, when there is one
SynthOutcomes == IF audio_enabled THEN {"played", "raised"} ELSE {"none"}

\* the notes in a list
NotesOf(notes) == {notes[i] : i \in DOMAIN notes}

\* self.play_notes_at_position(self.playback_position): the argument
PlayNotesCall(t) ==
    /\ threads[t].pc = "notes"
    /\ threads' = [threads EXCEPT ![t].pc = "check",
                                  ![t].position = playback_position,
                                  ![t].raised = FALSE]
    /\ UNCHANGED <<project, is_playing, playback_position, status, pending,
                   pubLog, obsLog, calls>>
    /\ UNCHANGED <<helperVars, editVars>>

\* if not self.audio_enabled or not self.current_track: return
PlayNotesCheck(t) ==
    /\ threads[t].pc = "check"
    /\ threads' = [threads EXCEPT
                      ![t].pc = IF current_track = None THEN "read" ELSE "for",
                      ![t].position = IF current_track = None THEN 0 ELSE @]
    /\ UNCHANGED <<project, is_playing, playback_position, status, pending,
                   pubLog, obsLog, calls>>
    /\ UNCHANGED <<helperVars, editVars>>

\* for note in self.current_track.notes: current_track is read again, and
\* None has no notes: the AttributeError ends the thread
PlayNotesFor(t, traced) ==
    /\ threads[t].pc = "for"
    /\ threads' = IF current_track = None
                  THEN [threads EXCEPT ![t] = DeadThread]
                  ELSE [threads EXCEPT
                          ![t].pc = "scan",
                          ![t].track = current_track,
                          ![t].kept = IF traced
                                      THEN NotesOf(heap[current_track].notes)
                                      ELSE @]
    /\ UNCHANGED <<project, is_playing, playback_position, status, pending,
                   pubLog, obsLog, calls>>
    /\ UNCHANGED <<helperVars, editVars>>

\* if note_start <= position < note_end, position being in ticks
ActiveAt(note, position) ==
    /\ TicksPerBeat * note.start_time <= UnitsPerBeat * position
    /\ UnitsPerBeat * position
          < TicksPerBeat * (note.start_time + note.duration)

\* one turn of the loop over the list, as it is now, or its end
PlayNotesScan(t, traced) ==
    /\ threads[t].pc = "scan"
    /\ LET notes == heap[threads[t].track].notes
           note == notes[threads[t].i + 1]
       IN  IF threads[t].i < Len(notes)
           THEN /\ threads' = [threads EXCEPT
                      ![t].i = @ + 1,
                      ![t].active = IF ActiveAt(note, threads[t].position)
                                    THEN Append(@, note) ELSE @,
                      ![t].seen = IF traced THEN Append(@, note) ELSE @]
                /\ UNCHANGED heap
           ELSE /\ threads' = [threads EXCEPT ![t].pc = "play",
                                              ![t].track = None,
                                              ![t].i = 0,
                                              ![t].position = 0,
                                              ![t].seen = << >>,
                                              ![t].kept = {}]
                /\ heap' = Collect(heap, project, current_track, threads')
    /\ UNCHANGED <<project, is_playing, playback_position, status, pending,
                   pubLog, obsLog, calls>>
    /\ UNCHANGED <<helperVars, current_track, audio_enabled, message_box,
                   disk, sound>>

\* the exception of a failed synthesis leaves play_midi_note and ends the
\* thread
PlayMidiNoteRaising(t, outcome) ==
    /\ threads[t].pc = "play"
    /\ IF threads[t].active = << >>
       THEN /\ Goto(t, "read")
            /\ UNCHANGED sound
       ELSE /\ play_midi_note(Head(threads[t].active).pitch,
                              Head(threads[t].active).velocity, outcome)
            /\ threads' = IF outcome = "raised"
                          THEN [threads EXCEPT ![t] = DeadThread]
                          ELSE [threads EXCEPT ![t].active = Tail(@)]
    /\ UNCHANGED <<project, is_playing, playback_position, status, pending,
                   pubLog, obsLog, calls>>
    /\ UNCHANGED <<helperVars, heap, current_track, audio_enabled,
                   message_box, disk>>

\* for note in active_notes: self.play_midi_note(note.pitch, note.velocity),
\* one turn or the end
PlayMidiNote(t, outcome) ==
    /\ threads[t].pc = "play"
    /\ IF threads[t].active = << >>
       THEN /\ Goto(t, "read")
            /\ UNCHANGED sound
       ELSE /\ play_midi_note(Head(threads[t].active).pitch,
                              Head(threads[t].active).velocity, outcome)
            /\ threads' = [threads EXCEPT
                              ![t].active = Tail(@),
                              ![t].raised = @ \/ outcome = "raised"]
    /\ UNCHANGED <<project, is_playing, playback_position, status, pending,
                   pubLog, obsLog, calls>>
    /\ UNCHANGED <<helperVars, heap, current_track, audio_enabled,
                   message_box, disk>>

\* the steps of play_notes_at_position
PlayNotesStep(t, traced) ==
    \/ PlayNotesCall(t)
    \/ PlayNotesCheck(t)
    \/ PlayNotesFor(t, traced)
    \/ PlayNotesScan(t, traced)
    \/ \E outcome \in SynthOutcomes : PlayMidiNote(t, outcome)

ThreadStep(t, logged) ==
    \/ LoopStart(t)
    \/ LoopTestPlaying(t)
    \/ LoopTestPosition(t)
    \/ Publish(t, logged)
    \/ AdvanceRead(t)
    \/ AdvanceWrite(t)
    \/ LoopExit(t)

-----------------------------------------------------------------------------
(* The UI thread runs the callbacks wx.CallAfter queued, oldest first *)

NewestCallback(queue) == Len(queue)

\* the place in the queue of the callback the event loop runs next
NextCallback(queue) == 1

Remove(queue, i) ==
    [j \in 1..(Len(queue) - 1) |-> IF j < i THEN queue[j] ELSE queue[j + 1]]

Deliver(logged) ==
    /\ pending # << >>
    /\ pending' = Remove(pending, NextCallback(pending))
    /\ IF pending[NextCallback(pending)].callback = "on_stop"
       THEN /\ on_stop
            /\ UNCHANGED obsLog
       ELSE /\ obsLog' = IF logged
                         THEN Append(obsLog,
                                 [seq |-> pending[NextCallback(pending)].seq,
                                  label |-> pending[NextCallback(pending)].label])
                         ELSE obsLog
            /\ UNCHANGED <<is_playing, playback_position, status>>
    /\ UNCHANGED <<project, threads, pubLog, calls>>
    /\ UNCHANGED helperVars
    /\ UNCHANGED editVars

-----------------------------------------------------------------------------
(* Specifications of the transport *)

Init ==
    /\ TransportInit
    /\ call = [fn |-> "none"]
    /\ result = NoResult

Next ==
    \/ UserPlay(FALSE)
    \/ UserStop(FALSE)
    \/ Deliver(FALSE)
    \/ \E t \in ThreadIds : ThreadStep(t, FALSE)

Spec == Init /\ [][Next]_vars

\* runs of at most MaxCalls user calls and MaxLog publications, with the
\* histories pubLog and obsLog
NextLogged ==
    \/ UserPlay(TRUE)
    \/ UserStop(TRUE)
    \/ Deliver(TRUE)
    \/ \E t \in ThreadIds : ThreadStep(t, TRUE)

LogSpec == Init /\ [][NextLogged]_vars

\* on_tempo_changed: self.project.tempo = self.tempo_ctrl.GetValue()
on_tempo_changed(value) ==
    /\ project' = [project EXCEPT !.tempo = value]
    /\ UNCHANGED <<is_playing, playback_position, status, threads, pending,
                   pubLog, obsLog>>

\* the values of tempo_ctrl tried: its least, its first and its greatest
Tempos == {60, 120, 200}

\* the user turns the tempo control
UserTempo ==
    \E value \in Tempos :
        /\ calls > 0
        /\ on_tempo_changed(value)
        /\ calls' = calls - 1
        /\ call' = [fn |-> "on_tempo_changed", value |-> value]
        /\ UNCHANGED <<result, editVars>>

\* the runs of LogSpec with the tempo changed between the other calls
NextTempo ==
    \/ NextLogged
    \/ UserTempo

TempoSpec == Init /\ [][NextTempo]_vars

\* runs of at most MaxCalls user calls; every thread started keeps running
\* (the operating system schedules it) and the event loop keeps running the
\* callbacks queued
NextCounted ==
    \/ UserPlay(TRUE)
    \/ UserStop(TRUE)
    \/ Deliver(FALSE)
    \/ \E t \in ThreadIds : ThreadStep(t, FALSE)

LiveSpec ==
    /\ Init
    /\ [][NextCounted]_vars
    /\ WF_vars(Deliver(FALSE))
    /\ \A t \in ThreadIds : WF_vars(ThreadStep(t, FALSE))

-----------------------------------------------------------------------------
(* snap_to_scale *)

\* self.scales
scales ==
    [Major      |-> <<0, 2, 4, 5, 7, 9, 11>>,
     Minor      |-> <<0, 2, 3, 5, 7, 8, 10>>,
     Pentatonic |-> <<0, 2, 4, 7, 9>>,
     Blues      |-> <<0, 3, 5, 6, 7, 10>>,
     Dorian     |-> <<0, 2, 3, 5, 7, 9, 10>>,
     Mixolydian |-> <<0, 2, 4, 5, 7, 9, 10>>]

Abs(n) == IF n < 0 THEN 0 - n ELSE n

CloserOrEqual(distance, closest) ==
    ~closest.finite \/ distance <= closest.distance

\* if distance < closest_distance, with closest_distance = float('inf') at first
Closer(distance, closest) ==
    ~closest.finite \/ distance < closest.distance

\* for scale_note in scale_notes: keep the closest seen, from place i on
RECURSIVE ClosestInScale(_, _, _, _)
ClosestInScale(note_in_octave, scale_notes, i, closest) ==
    IF i > Len(scale_notes) THEN closest.note
    ELSE LET scale_note == scale_notes[i]
             distance   == Abs(note_in_octave - scale_note)
         IN  ClosestInScale(note_in_octave, scale_notes, i + 1,
                 IF Closer(distance, closest)
                 THEN [finite |-> TRUE, distance |-> distance,
                       note |-> scale_note]
                 ELSE closest)

SnappedWithoutRoot(key_root, octave_offset, closest_note) ==
    octave_offset * 12 + closest_note

\* snapped_note = key_root + octave_offset * 12 + closest_note
SnappedNote(key_root, octave_offset, closest_note) ==
    key_root + octave_offset * 12 + closest_note

\* the body of snap_to_scale once the scale is looked up
SnapToNotes(midi_note, key_root, scale_notes) ==
    LET note_in_octave == (midi_note - key_root) % 12
        closest_note   ==
            ClosestInScale(note_in_octave, scale_notes, 1,
                [finite |-> FALSE, distance |-> 0, note |-> note_in_octave])
        octave_offset  == (midi_note - key_root) \div 12
    IN  SnappedNote(key_root, octave_offset, closest_note)

\* snap_to_scale, with key_choice and scale_choice as read from the widgets
snap_to_scale(midi_note, key_root, scale_name) ==
    IF scale_name \notin DOMAIN scales
    THEN midi_note
    ELSE SnapToNotes(midi_note, key_root, scales[scale_name])

-----------------------------------------------------------------------------
(* Quantization of the click time in on_piano_roll_click *)

\* get_quantize_value: quantize_map.get(selection, 1.0), in 1/40 beat
get_quantize_value(selection) ==
    CASE selection = "None" -> 0
      [] selection = "1/16" -> UnitsPerBeat \div 4
      [] selection = "1/8"  -> UnitsPerBeat \div 2
      [] selection = "1/4"  -> UnitsPerBeat
      [] OTHER              -> UnitsPerBeat

\* rounding with a tie away from zero, for num >= 0 the quotient rounded up
round_half_up(num, den) ==
    LET floor == num \div den
    IN  IF 2 * (num % den) < den THEN floor ELSE floor + 1

\* Python 3 round(num / den) for den > 0: to the nearest integer, a tie to
\* the even one
round(num, den) ==
    LET floor == num \div den
        twice == 2 * (num % den)
    IN  IF twice < den THEN floor
        ELSE IF twice > den THEN floor + 1
        ELSE IF floor % 2 = 0 THEN floor ELSE floor + 1

NotQuantized(x, quantize_value) == x

\* if quantize_value > 0: x = round(x / quantize_value) * quantize_value
Quantize(x, quantize_value) ==
    IF quantize_value > 0
    THEN round(x, quantize_value) * quantize_value
    ELSE x

-----------------------------------------------------------------------------
(* Project files.  json.load gives nothing for a file that is not JSON, a
   list for a JSON array and a dict for a JSON object; a dict is a record
   with the keys the file has *)

\* dict.get(key, default)
Get(d, key, default) == IF key \in DOMAIN d THEN d[key] ELSE default

\* Note(note_data['pitch'], note_data['duration'], note_data['start_time'],
\* note_data.get('velocity', 80)) raises KeyError without these keys
NoteLoads(note_data) ==
    {"pitch", "duration", "start_time"} \subseteq DOMAIN note_data

NoteLoaded(note_data) ==
    Note(note_data.pitch, note_data.duration, note_data.start_time,
         Get(note_data, "velocity", 80))

\* Track(track_data['name'], ...) raises KeyError without a name, and so do
\* the notes that do not load
TrackLoads(track_data) ==
    /\ "name" \in DOMAIN track_data
    /\ \A i \in 1..Len(Get(track_data, "notes", << >>)) :
          NoteLoads(track_data.notes[i])

TrackLoaded(track_data) ==
    [Track(track_data.name, Get(track_data, "instrument", 0)) EXCEPT
        !.volume = Get(track_data, "volume", 80),
        !.notes = [i \in 1..Len(Get(track_data, "notes", << >>)) |->
                      NoteLoaded(track_data.notes[i])]]

\* the tracks added to the project before the loop over data['tracks'] ends
\* or raises
LoadedCount(tracks) ==
    IF \A i \in 1..Len(tracks) : TrackLoads(tracks[i])
    THEN Len(tracks)
    ELSE (CHOOSE i \in 1..Len(tracks) :
             /\ ~TrackLoads(tracks[i])
             /\ \A j \in 1..(i - 1) : TrackLoads(tracks[j])) - 1

\* the places of the next n Track objects created
RECURSIVE Places(_, _)
Places(used, n) ==
    IF n = 0 THEN << >>
    ELSE <<NewTrack(used)>> \o Places(used \cup {NewTrack(used)}, n - 1)

\* the fields load_project sets before it loads the tracks
LoadedHeader(data) ==
    [MusicProject EXCEPT
        !.tempo = Get(data, "tempo", 120),
        !.time_signature =
            Get(data, "time_signature", [type |-> "array", value |-> <<4, 4>>]).value,
        !.key = Get(data, "key", "C"),
        !.length = Get(data, "length", 16),
        !.project_name = Get(data, "name", "Untitled")]

\* the project when load_project returns, loaded as far as it got, and how far
\* that is: "parse" (json.load raised), "dict" (data.get raised),
\* "time_signature" (tuple() raised), "tracks" (a track or note raised), or
\* "done"
LoadProject(file, used) ==
    IF file.json = "invalid"
    THEN [reached |-> "parse", project |-> project, tracks |-> << >>]
    ELSE IF file.json = "array"
    THEN [reached |-> "dict", project |-> MusicProject, tracks |-> << >>]
    ELSE IF Get(file.data, "time_signature", [type |-> "array"]).type # "array"
    THEN [reached |-> "time_signature",
          project |-> [MusicProject EXCEPT
                          !.tempo = Get(file.data, "tempo", 120)],
          tracks |-> << >>]
    ELSE LET track_datas == Get(file.data, "tracks", << >>)
             n == LoadedCount(track_datas)
         IN  [reached |-> IF n < Len(track_datas) THEN "tracks" ELSE "done",
              project |-> [LoadedHeader(file.data) EXCEPT
                              !.tracks = Places(used, n)],
              tracks |-> [i \in 1..n |-> TrackLoaded(track_datas[i])]]

\* create_default_track, in the project p
create_default_track(p, used) ==
    /\ project' = [p EXCEPT !.tracks = Append(p.tracks, NewTrack(used))]
    /\ current_track' = NewTrack(used)
    /\ heap' = Collect([heap EXCEPT ![NewTrack(used)] = Track("Track 1", 0)],
                       [p EXCEPT !.tracks = Append(p.tracks, NewTrack(used))],
                       NewTrack(used), threads)

\* load_project left the old project in place wherever it stopped
load_project_keeping(file) ==
    /\ message_box' = IF LoadProject(file, {}).reached = "done"
                      THEN "none" ELSE "Load Error"
    /\ UNCHANGED <<project, heap, current_track, status>>

\* load_project: self.project is replaced before the file's data is read, and
\* an exception leaves what was loaded until then; current_track is set only
\* at the end
load_project(file) ==
    LET used == ({current_track} \ {None}) \cup Held(threads)
        got == LoadProject(file, used)
        n == Len(got.tracks)
        loaded == [id \in TrackIds |->
                      IF \E i \in 1..n : got.project.tracks[i] = id
                      THEN got.tracks[CHOOSE i \in 1..n :
                                         got.project.tracks[i] = id]
                      ELSE heap[id]]
    IN  /\ Cardinality(TrackIds \ used) >= n
        /\ Cardinality(TrackIds \ used) >= 1
        /\ IF got.reached = "parse"
           THEN /\ message_box' = "Load Error"
                /\ UNCHANGED <<project, heap, current_track, status>>
           ELSE IF got.reached # "done"
           THEN /\ project' = got.project
                /\ heap' = Collect(loaded, got.project, current_track, threads)
                /\ message_box' = "Load Error"
                /\ UNCHANGED <<current_track, status>>
           ELSE IF n > 0
           THEN /\ project' = got.project
                /\ current_track' = got.project.tracks[1]
                /\ heap' = Collect(loaded, got.project, got.project.tracks[1], threads)
                /\ message_box' = "none"
                /\ status' = "Loaded"
           ELSE /\ create_default_track(got.project, used)
                /\ message_box' = "none"
                /\ status' = "Loaded"

\* the dict save_project writes
SavedData(p, h) ==
    [name |-> p.project_name,
     tempo |-> p.tempo,
     time_signature |-> [type |-> "array", value |-> p.time_signature],
     key |-> p.key,
     length |-> p.length,
     tracks |-> [i \in 1..Len(p.tracks) |->
                   [name |-> h[p.tracks[i]].name,
                    instrument |-> h[p.tracks[i]].instrument,
                    volume |-> h[p.tracks[i]].volume,
                    notes |-> [j \in 1..Len(h[p.tracks[i]].notes) |->
                        [pitch |-> h[p.tracks[i]].notes[j].pitch,
                         duration |-> h[p.tracks[i]].notes[j].duration,
                         start_time |-> h[p.tracks[i]].notes[j].start_time,
                         velocity |-> h[p.tracks[i]].notes[j].velocity]]]]]

\* save_project; open() or json.dump may raise, with the file not written or
\* written in part
save_project(outcome) ==
    /\ disk' = CASE outcome = "written"     -> [json |-> "object",
                                               data |-> SavedData(project, heap)]
                 [] outcome = "not written" -> disk
                 [] outcome = "cut short"   -> [json |-> "invalid"]
    /\ message_box' = IF outcome = "written" THEN "none" ELSE "Save Error"
    /\ status' = IF outcome = "written" THEN "Saved" ELSE status
    /\ UNCHANGED <<project, heap, current_track>>

\* on_new_project: MusicProject(), current_track = None, create_default_track
on_new_project ==
    /\ create_default_track(MusicProject, Held(threads))
    /\ message_box' = "none"
    /\ UNCHANGED status

-----------------------------------------------------------------------------
(* The track list *)

\* f"Track {len(self.project.tracks) + 1}"
TrackNames ==
    <<"Track 1", "Track 2", "Track 3", "Track 4", "Track 5", "Track 6">>

\* on_add_track
on_add_track ==
    LET used == Referenced(project, current_track, threads)
        track == Track(TrackNames[Len(project.tracks) + 1], 0)
    IN  /\ TrackIds \ used # {}
        /\ Len(project.tracks) < Len(TrackNames)
        /\ project' = [project EXCEPT !.tracks = Append(@, NewTrack(used))]
        /\ current_track' = NewTrack(used)
        /\ heap' = Collect([heap EXCEPT ![NewTrack(used)] = track],
                           project', current_track', threads)
        /\ message_box' = "none"
        /\ UNCHANGED status

\* list.remove(track) after "if track in self.tracks"
remove_track(tracks, track) == SelectSeq(tracks, LAMBDA id : id # track)

\* on_remove_track
on_remove_track ==
    /\ IF current_track # None /\ Len(project.tracks) > 1
       THEN /\ project' = [project EXCEPT
                              !.tracks = remove_track(@, current_track)]
            /\ current_track' = project'.tracks[1]
            /\ heap' = Collect(heap, project', current_track', threads)
       ELSE UNCHANGED <<project, current_track, heap>>
    /\ message_box' = "none"
    /\ UNCHANGED status

\* on_track_selected, selection counted from 0, -1 for nothing selected
on_track_selected(selection) ==
    /\ IF 0 <= selection /\ selection < Len(project.tracks)
       THEN /\ current_track' = project.tracks[selection + 1]
            /\ heap' = Collect(heap, project, current_track', threads)
       ELSE UNCHANGED <<current_track, heap>>
    /\ message_box' = "none"
    /\ UNCHANGED <<project, status>>

-----------------------------------------------------------------------------
(* Editing the notes of current_track *)

\* get_duration_value, in 1/40 beat
get_duration_value(selection) ==
    CASE selection = "1/16" -> UnitsPerBeat \div 4
      [] selection = "1/8"  -> UnitsPerBeat \div 2
      [] selection = "1/4"  -> UnitsPerBeat
      [] selection = "1/2"  -> 2 * UnitsPerBeat
      [] selection = "1"    -> 4 * UnitsPerBeat
      [] OTHER              -> UnitsPerBeat

\* the widgets on_piano_roll_click reads and the place clicked: x in 1/40
\* beat, y in half semitones
Click(tool, x, y, quantize, snap, key_root, scale_name, duration, velocity) ==
    [tool |-> tool, x |-> x, y |-> y, quantize |-> quantize, snap |-> snap,
     key_root |-> key_root, scale_name |-> scale_name, duration |-> duration,
     velocity |-> velocity]

\* x after "Quantize position if enabled"
ClickedTime(click) == Quantize(click.x, get_quantize_value(click.quantize))

\* y after int(round(y)) and "Snap to scale if enabled"
ClickedPitch(click) ==
    IF click.snap
    THEN snap_to_scale(round(click.y, 2), click.key_root, click.scale_name)
    ELSE round(click.y, 2)

\* abs(note.start_time - x) < 0.1 and note.pitch == y, for some note
NoteExists(notes, x, y) ==
    \E i \in 1..Len(notes) :
        /\ 10 * Abs(notes[i].start_time - x) < UnitsPerBeat
        /\ notes[i].pitch = y

\* the notes left when those with abs(note.start_time - x) < 0.5 and
\* abs(note.pitch - y) < 0.5 are removed
Erased(notes, x, y) ==
    SelectSeq(notes, LAMBDA note :
        ~ (/\ 2 * Abs(note.start_time - x) < UnitsPerBeat
           /\ 2 * Abs(note.pitch - y) < 2))

\* on_piano_roll_click
on_piano_roll_click(click, outcome) ==
    LET x == ClickedTime(click)
        y == ClickedPitch(click)
        notes == heap[current_track].notes
        new_note == Note(y, get_duration_value(click.duration), x,
                         click.velocity)
    IN  /\ IF current_track = None
           THEN UNCHANGED <<heap, status, sound>>
           ELSE IF click.tool = "pencil"
           THEN IF NoteExists(notes, x, y)
                THEN UNCHANGED <<heap, status, sound>>
                ELSE /\ heap' = [heap EXCEPT
                                   ![current_track].notes = Append(@, new_note)]
                     /\ status' = "Added note"
                     /\ play_midi_note(y, click.velocity, outcome)
           ELSE IF click.tool = "eraser"
           THEN /\ heap' = [heap EXCEPT
                              ![current_track].notes = Erased(@, x, y)]
                /\ status' = IF Erased(notes, x, y) # notes
                             THEN "Removed note(s)" ELSE status
                /\ UNCHANGED sound
           ELSE UNCHANGED <<heap, status, sound>>
        /\ message_box' = "none"
        /\ UNCHANGED <<project, current_track>>

\* chord_name_to_root
chord_name_to_root(chord_name) ==
    CASE chord_name \in {"C", "Cm"} -> 60
      [] chord_name \in {"D", "Dm"} -> 62
      [] chord_name \in {"E", "Em"} -> 64
      [] chord_name \in {"F", "Fm"} -> 65
      [] chord_name \in {"G", "Gm"} -> 67
      [] chord_name \in {"A", "Am"} -> 69
      [] chord_name \in {"B", "Bm"} -> 71
      [] OTHER -> 60

\* of the chord names tried (C, Am, Cmaj7), the ones with 'm' in
\* chord_name.lower()
MinorNames == {"Am", "Cmaj7"}

\* the notes of chord i (from 0) of the progression
ChordNotes(chord_name, i) ==
    LET root_note == chord_name_to_root(chord_name)
        third == IF chord_name \in MinorNames THEN 3 ELSE 4
    IN  << Note(root_note, 4 * UnitsPerBeat, i * 4 * UnitsPerBeat, 70),
           Note(root_note + third, 4 * UnitsPerBeat, i * 4 * UnitsPerBeat, 70),
           Note(root_note + 7, 4 * UnitsPerBeat, i * 4 * UnitsPerBeat, 70) >>

RECURSIVE ProgressionNotes(_, _)
ProgressionNotes(chords, i) ==
    IF i >= Len(chords) THEN << >>
    ELSE ChordNotes(chords[i + 1], i) \o ProgressionNotes(chords, i + 1)

\* the chords added after the notes there were
ChordsAdded(notes, chords) == notes \o ProgressionNotes(chords, 0)

\* self.current_track.notes.clear(), then the chords
ChordsGenerated(notes, chords) == ProgressionNotes(chords, 0)

\* on_generate_chords, chords being the names in the text field
on_generate_chords(chords) ==
    /\ IF chords = << >> \/ current_track = None
       THEN UNCHANGED <<heap, status>>
       ELSE /\ heap' = [heap EXCEPT ![current_track].notes =
                            ChordsGenerated(@, chords)]
            /\ status' = "Generated chord progression"
    /\ message_box' = "none"
    /\ UNCHANGED <<project, current_track>>

\* the rhythm patterns, in 1/40 beat; no pattern for the other choices
Pattern(rhythm_name) ==
    CASE rhythm_name = "4/4 Basic" ->
            [i \in 1..4 |-> (i - 1) * UnitsPerBeat]
      [] rhythm_name = "4/4 Rock" ->
            [i \in 1..8 |-> (i - 1) * (UnitsPerBeat \div 2)]
      [] rhythm_name = "3/4 Waltz" ->
            [i \in 1..3 |-> (i - 1) * UnitsPerBeat]
      [] OTHER -> << >>

\* min(pattern, key=lambda x: abs(x - start_time)): the first of the nearest
ClosestBeat(pattern, start_time) ==
    pattern[CHOOSE i \in 1..Len(pattern) :
               /\ \A j \in 1..Len(pattern) :
                     Abs(pattern[i] - start_time) <= Abs(pattern[j] - start_time)
               /\ \A j \in 1..(i - 1) :
                     Abs(pattern[j] - start_time) > Abs(pattern[i] - start_time)]

\* on_apply_rhythm
on_apply_rhythm(rhythm_name) ==
    LET pattern == Pattern(rhythm_name)
        notes == heap[current_track].notes
    IN  /\ IF current_track = None \/ pattern = << >>
           THEN UNCHANGED <<heap, status>>
           ELSE /\ heap' = [heap EXCEPT ![current_track].notes =
                              IF notes = << >>
                              THEN [i \in 1..Len(pattern) |->
                                      Note(60, UnitsPerBeat \div 2,
                                           pattern[i], 80)]
                              ELSE [i \in 1..Len(notes) |->
                                      [notes[i] EXCEPT !.start_time =
                                          ClosestBeat(pattern, @)]]]
                /\ status' = "Applied rhythm"
        /\ message_box' = "none"
        /\ UNCHANGED <<project, current_track>>

-----------------------------------------------------------------------------
(* The helpers applied to every input within the bounds *)

MidiNotes == (0 - 3)..MaxNote

KeyRoots == 0..11

\* interval lists other than the built-in ones: one or two intervals, ascending
OtherScales ==
    {<<a>> : a \in 0..11}
        \cup {pair \in (0..11) \X (0..11) : pair[1] < pair[2]}

ClickTimes == (0 - MaxClick)..MaxClick

QuantizeChoices == {"None", "1/16", "1/8", "1/4"}

\* notes on the beats of a bar of three, of no length, one beat and two beats
RangeNotes ==
    {Note(pitch, duration, start_time, 80) :
        pitch \in {60, 64},
        duration \in {0, UnitsPerBeat, 2 * UnitsPerBeat},
        start_time \in {0, UnitsPerBeat, 2 * UnitsPerBeat}}

NoteLists == UNION {[1..n -> RangeNotes] : n \in 0..MaxNotes}

\* the edges of a range: the beats of the bar and its end
RangeEdges == {n * UnitsPerBeat : n \in 0..3}

HelperCalls ==
    [fn : {"snap_to_scale"}, midi_note : MidiNotes, key_root : KeyRoots,
     scale_name : DOMAIN scales]
    \cup [fn : {"snap_to_notes"}, midi_note : MidiNotes, key_root : KeyRoots,
          scale_notes : OtherScales]
    \cup [fn : {"quantize"}, x : ClickTimes, selection : QuantizeChoices]
    \cup [fn : {"get_notes_in_range"}, notes : NoteLists,
          start_time : RangeEdges, end_time : RangeEdges]

\* the helpers read nothing of the transport: it stays as constructed, with
\* one project
HelperInit ==
    /\ TransportInit
    /\ project = CHOOSE p \in Projects : TRUE
    /\ call \in HelperCalls
    /\ result = NoResult

SnapToScaleCall ==
    /\ call.fn = "snap_to_scale"
    /\ result = NoResult
    /\ result' = <<snap_to_scale(call.midi_note, call.key_root,
                                 call.scale_name)>>
    /\ UNCHANGED <<call, transportVars, editVars>>

SnapToNotesCall ==
    /\ call.fn = "snap_to_notes"
    /\ result = NoResult
    /\ result' = <<SnapToNotes(call.midi_note, call.key_root,
                               call.scale_notes)>>
    /\ UNCHANGED <<call, transportVars, editVars>>

QuantizeCall ==
    /\ call.fn = "quantize"
    /\ result = NoResult
    /\ result' = <<Quantize(call.x, get_quantize_value(call.selection))>>
    /\ UNCHANGED <<call, transportVars, editVars>>

GetNotesInRangeCall ==
    /\ call.fn = "get_notes_in_range"
    /\ result = NoResult
    /\ result' = <<get_notes_in_range(call.notes, call.start_time,
                                      call.end_time)>>
    /\ UNCHANGED <<call, transportVars, editVars>>

HelperNext ==
    \/ SnapToScaleCall
    \/ SnapToNotesCall
    \/ QuantizeCall
    \/ GetNotesInRangeCall

HelperSpec == HelperInit /\ [][HelperNext]_vars

-----------------------------------------------------------------------------
(* Editing: runs of at most MaxCalls calls of the editing handlers, the
   transport at rest *)

\* track_data of the files: with every key; with the name only; without a
\* name; with a note without pitch; with a note no Note should be
LeadTrack ==
    [name |-> "Lead", instrument |-> 5, volume |-> 64,
     notes |-> << [pitch |-> 60, duration |-> 40, start_time |-> 0,
                   velocity |-> 100],
                  [pitch |-> 64, duration |-> 20, start_time |-> 40] >>]

BassTrack == [name |-> "Bass"]

NamelessTrack ==
    [instrument |-> 1,
     notes |-> << [pitch |-> 60, duration |-> 40, start_time |-> 0] >>]

BrokenTrack ==
    [name |-> "Broken",
     notes |-> << [pitch |-> 60, duration |-> 40, start_time |-> 0],
                  [duration |-> 40, start_time |-> 0] >>]

WildTrack ==
    [name |-> "Wild",
     notes |-> << [pitch |-> 200, duration |-> 0, start_time |-> 0 - 40,
                   velocity |-> 0] >>]

\* the files opened: not JSON; a JSON array; objects with and without the
\* keys of the project and of its tracks
Files ==
    { [json |-> "invalid"],
      [json |-> "array"],
      [json |-> "object",
       data |-> [name |-> "Song", tempo |-> 90,
                 time_signature |-> [type |-> "array", value |-> <<3, 4>>],
                 key |-> "G", length |-> 8,
                 tracks |-> <<LeadTrack, BassTrack>>]],
      [json |-> "object",
       data |-> [name |-> "Song", tempo |-> 90,
                 time_signature |-> [type |-> "array", value |-> <<3, 4>>],
                 key |-> "G", length |-> 8]],
      [json |-> "object", data |-> [key |-> "G"]],
      [json |-> "object", data |-> [tempo |-> 90, tracks |-> << >>]],
      [json |-> "object",
       data |-> [tempo |-> 90,
                 time_signature |-> [type |-> "number", value |-> 4],
                 tracks |-> <<LeadTrack>>]],
      [json |-> "object",
       data |-> [name |-> "Song", tempo |-> 90, length |-> 8,
                 tracks |-> <<LeadTrack, NamelessTrack>>]],
      [json |-> "object", data |-> [tracks |-> <<BrokenTrack>>]],
      [json |-> "object", data |-> [tracks |-> <<WildTrack>>]] }

Tools == {"select", "pencil", "eraser"}

\* the clicks tried: left of the origin and half a beat after it, on a key
\* and between two keys
Clicks ==
    {Click(tool, x, y, quantize, snap, 0, "Major", "1/2", 127) :
        tool \in Tools, x \in {0 - 24, 20}, y \in {121, 122},
        quantize \in {"None", "1/4"}, snap \in BOOLEAN}

\* the chord_text tried: empty, one chord, two chords
Progressions == {<< >>, <<"C">>, <<"Am", "Cmaj7">>}

RhythmNames == {"4/4 Basic", "4/4 Rock", "3/4 Waltz", "Custom"}

EditInit ==
    /\ project = [MusicProject EXCEPT !.tracks = <<1>>]
    /\ FrameInit
    /\ audio_enabled = FALSE
    /\ call = [fn |-> "none"]
    /\ result = NoResult

\* an editing handler called by the user: it leaves the transport alone
Called(called, handler) ==
    /\ calls > 0
    /\ handler
    /\ calls' = calls - 1
    /\ call' = called
    /\ UNCHANGED <<is_playing, playback_position, pending, pubLog, obsLog,
                   result, audio_enabled>>

Edit(called, handler) == Called(called, handler) /\ UNCHANGED threads

UserLoad ==
    \E file \in Files \cup ({disk} \ {[json |-> "none"]}) :
        Edit([fn |-> "load_project", file |-> file,
              from_disk |-> (file = disk)],
             load_project(file) /\ UNCHANGED <<disk, sound>>)

UserSave ==
    \E outcome \in {"written", "not written", "cut short"} :
        Edit([fn |-> "save_project", outcome |-> outcome],
             save_project(outcome) /\ UNCHANGED sound)

UserNew ==
    Edit([fn |-> "on_new_project"], on_new_project /\ UNCHANGED <<disk, sound>>)

UserAddTrack ==
    Edit([fn |-> "on_add_track"], on_add_track /\ UNCHANGED <<disk, sound>>)

UserRemoveTrack ==
    Edit([fn |-> "on_remove_track"],
         on_remove_track /\ UNCHANGED <<disk, sound>>)

UserSelectTrack ==
    \E selection \in (0 - 1)..(MaxTracks - 1) :
        Edit([fn |-> "on_track_selected"],
             on_track_selected(selection) /\ UNCHANGED <<disk, sound>>)

UserClick ==
    \E click \in Clicks, outcome \in SynthOutcomes :
        Edit([fn |-> "on_piano_roll_click", tool |-> click.tool],
             on_piano_roll_click(click, outcome) /\ UNCHANGED disk)

UserChords ==
    \E chords \in Progressions :
        Edit([fn |-> "on_generate_chords", chords |-> chords],
             on_generate_chords(chords) /\ UNCHANGED <<disk, sound>>)

UserRhythm ==
    \E rhythm_name \in RhythmNames :
        Edit([fn |-> "on_apply_rhythm", rhythm_name |-> rhythm_name],
             on_apply_rhythm(rhythm_name) /\ UNCHANGED <<disk, sound>>)

EditNext ==
    \/ UserLoad
    \/ UserSave
    \/ UserNew
    \/ UserAddTrack
    \/ UserRemoveTrack
    \/ UserSelectTrack
    \/ UserClick
    \/ UserChords
    \/ UserRhythm

EditSpec == EditInit /\ [][EditNext]_vars

-----------------------------------------------------------------------------
(* Drawing and erasing: runs of at most MaxCalls clicks on the keys, with
   every quantize setting and snap-to-scale on and off, the click recorded *)

\* pencil and eraser a quarter and a half of a beat after the start, on the
\* keys 60 and 61
KeyClicks ==
    {Click(tool, x, y, quantize, snap, 0, "Major", "1/2", 127) :
        tool \in {"pencil", "eraser"},
        x \in {UnitsPerBeat \div 4, UnitsPerBeat \div 2}, y \in {120, 122},
        quantize \in QuantizeChoices, snap \in BOOLEAN}

KeyClick ==
    \E click \in KeyClicks, outcome \in SynthOutcomes :
        Edit([fn |-> "on_piano_roll_click", tool |-> click.tool,
              click |-> click],
             on_piano_roll_click(click, outcome) /\ UNCHANGED disk)

ClickSpec == EditInit /\ [][KeyClick]_vars

-----------------------------------------------------------------------------
(* Playing with and without audio: runs of at most MaxCalls calls and MaxLog
   publications in which notes are added and the project is replaced while
   the threads run.  on_new_project is taken in its two steps, since a
   thread may run between them *)

AudioInit ==
    /\ project = CHOOSE p \in Projects : TRUE
    /\ FrameInit
    /\ audio_enabled \in BOOLEAN
    /\ call = [fn |-> "none"]
    /\ result = NoResult

\* notes at the start of the project, on two keys
AudioClicks ==
    {click \in Clicks : /\ click.tool = "pencil"
                        /\ click.x = 20
                        /\ click.quantize = "1/4"
                        /\ ~click.snap}

AudioClick ==
    \E click \in AudioClicks, outcome \in SynthOutcomes :
        Edit([fn |-> "on_piano_roll_click", tool |-> click.tool],
             on_piano_roll_click(click, outcome) /\ UNCHANGED disk)

\* on_new_project: self.project = MusicProject(); self.current_track = None
NewProjectBegin ==
    Edit([fn |-> "on_new_project"],
         /\ project' = MusicProject
         /\ current_track' = None
         /\ heap' = Collect(heap, MusicProject, None, threads)
         /\ UNCHANGED <<status, message_box, disk, sound>>)

\* on_new_project: self.create_default_track()
NewProjectEnd ==
    /\ current_track = None
    /\ create_default_track(project, Held(threads))
    /\ message_box' = "none"
    /\ UNCHANGED <<is_playing, playback_position, status, threads, pending,
                   pubLog, obsLog, calls, call, result, audio_enabled, disk,
                   sound>>

\* the UI thread is between two handlers: current_track is None only inside
\* on_new_project
UIIdle == current_track # None

AudioNext ==
    \/ UIIdle /\ UserPlay(TRUE)
    \/ UIIdle /\ UserStop(TRUE)
    \/ UIIdle /\ Deliver(TRUE)
    \/ UIIdle /\ AudioClick
    \/ UIIdle /\ NewProjectBegin
    \/ NewProjectEnd
    \/ \E t \in ThreadIds : ThreadStep(t, TRUE)
    \/ \E t \in ThreadIds : PlayNotesStep(t, FALSE)

AudioSpec == AudioInit /\ [][AudioNext]_vars

-----------------------------------------------------------------------------
(* Playing a project of several tracks, with audio: runs of at most MaxCalls
   calls and MaxLog publications in which notes are drawn and tracks added *)

MixInit ==
    /\ project = CHOOSE p \in Projects : TRUE
    /\ FrameInit
    /\ audio_enabled = TRUE
    /\ call = [fn |-> "none"]
    /\ result = NoResult

MixNext ==
    \/ UserPlay(TRUE)
    \/ UserStop(TRUE)
    \/ Deliver(TRUE)
    \/ AudioClick
    \/ UserAddTrack
    \/ \E t \in ThreadIds : ThreadStep(t, TRUE)
    \/ \E t \in ThreadIds : PlayNotesStep(t, FALSE)

MixSpec == MixInit /\ [][MixNext]_vars

-----------------------------------------------------------------------------
(* Editing the track that is played, with audio: runs of at most MaxCalls
   calls and MaxLog publications in which notes are drawn, erased and laid on
   a rhythm while a thread goes through the list.  What the loop over the
   list comes to, and what stays in the list meanwhile, is recorded *)

SnapInit ==
    /\ project = CHOOSE p \in Projects : TRUE
    /\ FrameInit
    /\ audio_enabled = TRUE
    /\ call = [fn |-> "none"]
    /\ result = NoResult

\* pencil and eraser at the start of the project, on two keys
SnapClicks ==
    {click \in Clicks : /\ click.tool \in {"pencil", "eraser"}
                        /\ click.x = 20
                        /\ click.quantize = "1/4"
                        /\ ~click.snap}

\* (history) a thread in its loop over a list: the notes still in the list
\* after the handler
Kept(t) ==
    IF threads[t].pc = "scan"
    THEN [threads[t] EXCEPT
             !.kept = @ \cap NotesOf(heap'[threads[t].track].notes)]
    ELSE threads[t]

\* an editing handler called while threads run
EditWatched(called, handler) ==
    /\ Called(called, handler)
    /\ threads' = [t \in ThreadIds |-> Kept(t)]

SnapClick ==
    \E click \in SnapClicks, outcome \in SynthOutcomes :
        EditWatched([fn |-> "on_piano_roll_click", tool |-> click.tool],
                    on_piano_roll_click(click, outcome) /\ UNCHANGED disk)

SnapRhythm ==
    EditWatched([fn |-> "on_apply_rhythm", rhythm_name |-> "4/4 Basic"],
                on_apply_rhythm("4/4 Basic") /\ UNCHANGED <<disk, sound>>)

SnapNext ==
    \/ UserPlay(TRUE)
    \/ UserStop(TRUE)
    \/ Deliver(TRUE)
    \/ SnapClick
    \/ SnapRhythm
    \/ \E t \in ThreadIds : ThreadStep(t, TRUE)
    \/ \E t \in ThreadIds : PlayNotesStep(t, TRUE)

SnapSpec == SnapInit /\ [][SnapNext]_vars

-----------------------------------------------------------------------------
(* Claims about the transport *)

Stopped == ~is_playing /\ status = "Stopped"

Paused == ~is_playing /\ status = "Paused"

Alive(t) == threads[t].pc # "dead"

\* C1: whenever the transport is Stopped the playback position is 0, also
\* when a tick was in progress while stop() ran.
C1_StoppedAtZero == Stopped => playback_position = 0

\* C2: a play() call made while the transport is not playing leaves it
\* Playing at position 0 with one more playback_loop thread started,
\* whatever the position was before the call.
C2_PlayStartsAtZero ==
    [][ (calls' # calls /\ call'.fn = "on_play" /\ ~is_playing)
        => /\ is_playing'
           /\ playback_position' = 0
           /\ status' = "Playing..."
           /\ \E t \in ThreadIds :
                 /\ ~Alive(t)
                 /\ threads'[t].pc = "start"
                 /\ \A u \in ThreadIds \ {t} : threads'[u] = threads[u] ]_vars

\* C2 witness: play() was called while paused at a position other than 0,
\* and the transport is Playing at 0 with the new thread about to run.
C2_Witness ==
    /\ call.fn = "on_play"
    /\ ~call.was_playing
    /\ call.position > 0
    /\ is_playing
    /\ playback_position = 0
    /\ \E t \in ThreadIds : threads[t].pc = "start"

\* C3: while the transport stays Paused the playback position keeps the
\* value it had when the pausing call was made.
C3_PausedPositionFrozen ==
    [][ (Paused /\ Paused') => playback_position' = playback_position ]_vars

\* C4: left Playing with no further user call, the position reaches
\* length_beats and the transport then becomes Stopped at position 0.
C4_PlaysToTheEnd ==
    (is_playing /\ calls = 0)
        ~> (/\ playback_position = MaxBeats(project)
            /\ <>(Stopped /\ playback_position = 0))

\* C5: within one Playing run the playback position never decreases from one
\* state to the next.
C5_MonotoneWithinRun ==
    [][ (is_playing /\ is_playing')
        => playback_position' >= playback_position ]_vars

\* C6: the playback position never exceeds length_beats of the project
\* played.
C6_PositionBounded == playback_position <= MaxBeats(project)

RECURSIVE IsSubsequence(_, _)
IsSubsequence(s, t) ==
    IF s = << >> THEN TRUE
    ELSE IF t = << >> THEN FALSE
    ELSE IF Head(s) = Head(t) THEN IsSubsequence(Tail(s), Tail(t))
    ELSE IsSubsequence(s, Tail(t))

\* C7: the labels the UI shows are, in the order shown, a subsequence of the
\* labels the threads published, in the order published.
C7_ObservedInTickOrder == IsSubsequence(obsLog, pubLog)

\* C7 witness: the UI has shown two different labels and a later publication
\* is still queued.
C7_Witness ==
    /\ Len(obsLog) >= 2
    /\ obsLog[1].label # obsLog[2].label
    /\ \E i \in 1..Len(pending) : pending[i].callback = "SetLabel"

-----------------------------------------------------------------------------
(* Claims about the helpers *)

Range(seq) == {seq[i] : i \in 1..Len(seq)}

SnapCalled == call.fn \in {"snap_to_scale", "snap_to_notes"} /\ result # NoResult

\* the interval list of the snap call made
CalledScale ==
    IF call.fn = "snap_to_scale" THEN scales[call.scale_name]
    ELSE call.scale_notes

\* C8: for every pitch, key root in 0..11 and non-empty interval list S,
\* the pitch q returned by snap_to_scale has (q - key_root) mod 12 in S.
C8_SnappedInScale ==
    SnapCalled => (result[1] - call.key_root) % 12 \in Range(CalledScale)

\* C8 witness: a pitch that is not in the scale was snapped into it.
C8_Witness ==
    /\ SnapCalled
    /\ (call.midi_note - call.key_root) % 12 \notin Range(CalledScale)
    /\ call.midi_note < call.key_root
    /\ (result[1] - call.key_root) % 12 \in Range(CalledScale)

\* the interval of S nearest to the pitch class pc, the smaller of two
\* equally near ones
NearestInterval(pc, S) ==
    CHOOSE c \in S :
        \A d \in S : \/ Abs(pc - c) < Abs(pc - d)
                     \/ Abs(pc - c) = Abs(pc - d) /\ c <= d

\* C9: snap_to_scale returns key_root + floor((pitch - key_root)/12)*12 + c
\* with c the interval nearest to (pitch - key_root) mod 12, and of two
\* equally near intervals the numerically smaller.
C9_NearestSmallerOnTie ==
    SnapCalled =>
        LET pc == (call.midi_note - call.key_root) % 12
            octave == (call.midi_note - call.key_root - pc) \div 12
        IN  result[1] = call.key_root + octave * 12
                          + NearestInterval(pc, Range(CalledScale))

\* C9 witness: a pitch class equally near to two intervals of the scale was
\* snapped.
C9_Witness ==
    /\ SnapCalled
    /\ LET pc == (call.midi_note - call.key_root) % 12
           S  == Range(CalledScale)
       IN  \E c, d \in S :
              /\ c < d
              /\ Abs(pc - c) = Abs(pc - d)
              /\ \A e \in S : Abs(pc - e) >= Abs(pc - c)

\* C10: quantizing with grid 0 returns the time unchanged, and with a grid
\* g > 0 it returns an integer multiple of g.
C10_QuantizedOnGrid ==
    (call.fn = "quantize" /\ result # NoResult) =>
        LET g == get_quantize_value(call.selection)
        IN  /\ g = 0 => result[1] = call.x
            /\ g > 0 => \E n \in (0 - MaxClick)..MaxClick : result[1] = n * g

\* C10 witness: a time off the grid, below 0, was quantized.
C10_Witness ==
    /\ call.fn = "quantize"
    /\ result # NoResult
    /\ get_quantize_value(call.selection) > 0
    /\ call.x < 0
    /\ result[1] # call.x

\* a quantize call was made with a time of at least 0 that lies halfway
\* between two neighbouring multiples of the grid
QuantizedHalfway ==
    /\ call.fn = "quantize"
    /\ result # NoResult
    /\ call.x >= 0
    /\ get_quantize_value(call.selection) > 0
    /\ 2 * (call.x % get_quantize_value(call.selection))
          = get_quantize_value(call.selection)

\* C11 as stated: a time of at least 0 halfway between n*g and (n+1)*g is
\* quantized to (n+1)*g, for every n.
C11_HalfAwayFromZero ==
    QuantizedHalfway =>
        LET g == get_quantize_value(call.selection)
            n == call.x \div g
        IN  result[1] = (n + 1) * g

\* C11 amended: a time of at least 0 halfway between n*g and (n+1)*g is
\* quantized to the even multiple of the two: n*g when n is even, (n+1)*g
\* when n is odd.
C11_HalfToEven ==
    QuantizedHalfway =>
        LET g == get_quantize_value(call.selection)
            n == call.x \div g
        IN  result[1] = IF n % 2 = 0 THEN n * g ELSE (n + 1) * g

\* C11 witness: a time halfway above an even multiple was quantized down to
\* that multiple.
C11_Witness ==
    /\ QuantizedHalfway
    /\ (call.x \div get_quantize_value(call.selection)) % 2 = 0
    /\ result[1] < call.x

\* the note overlaps the range asked for
Overlaps(note) ==
    /\ note.start_time < call.end_time
    /\ note.start_time + note.duration > call.start_time

\* C12: get_notes_in_range returns the notes of the track that start before
\* the end of the range and end after its start, all of them and no other,
\* in the order of the track; so a note that ends at the start of the range
\* is left out, and a note of some length that starts at the start of a
\* range that is not empty is returned.
C12_NotesInRange ==
    (call.fn = "get_notes_in_range" /\ result # NoResult) =>
        /\ IsSubsequence(result[1], call.notes)
        /\ \A i \in 1..Len(result[1]) : Overlaps(result[1][i])
        /\ Len(result[1])
             = Cardinality({i \in 1..Len(call.notes) : Overlaps(call.notes[i])})
        /\ \A i \in 1..Len(call.notes) :
              LET note == call.notes[i]
              IN  /\ note.start_time + note.duration = call.start_time
                        => note \notin Range(result[1])
                  /\ (/\ note.start_time = call.start_time
                       /\ note.duration > 0
                       /\ call.start_time < call.end_time)
                        => note \in Range(result[1])

\* C12 witness: of two notes, the first ending where the range starts and the
\* second starting there, only the second was returned.
C12_Witness ==
    /\ call.fn = "get_notes_in_range"
    /\ result # NoResult
    /\ Len(call.notes) = 2
    /\ call.notes[1].duration > 0
    /\ call.notes[1].start_time + call.notes[1].duration = call.start_time
    /\ call.notes[2].start_time = call.start_time
    /\ result[1] = <<call.notes[2]>>

-----------------------------------------------------------------------------
(* Claims about project files *)

\* the project is as MusicProject() and create_default_track() make it
FreshProject ==
    /\ [project EXCEPT !.tracks = << >>] = MusicProject
    /\ Len(project.tracks) = 1
    /\ heap[project.tracks[1]] = Track("Track 1", 0)

\* C13: when load_project has failed, which it reports in a message box, the
\* project is a fresh default project with exactly one default track: no field
\* and no track of the file is left in it.
C13_FailedLoadGivesDefault ==
    (call.fn = "load_project" /\ message_box = "Load Error") => FreshProject

\* the last call loaded a file that is a JSON object without the key tracks,
\* whose time_signature, if it has one, is an array
LoadedWithoutTracks ==
    /\ call.fn = "load_project"
    /\ call.file.json = "object"
    /\ "tracks" \notin DOMAIN call.file.data
    /\ Get(call.file.data, "time_signature", [type |-> "array"]).type = "array"

Fields(p, h) ==
    [name |-> p.project_name, tempo |-> p.tempo,
     time_signature |-> p.time_signature, key |-> p.key, length |-> p.length,
     tracks |-> [i \in 1..Len(p.tracks) |->
                   [name |-> h[p.tracks[i]].name,
                    instrument |-> h[p.tracks[i]].instrument,
                    volume |-> h[p.tracks[i]].volume,
                    notes |-> h[p.tracks[i]].notes]]]

\* C15: when save_project has written the project and load_project then loads
\* the file written, the project has the same name, tempo, time signature,
\* key and length as before and the same tracks in the same order, each with
\* the same name, instrument, volume and notes.
C15_SaveLoadRoundTrip ==
    [][(/\ call.fn = "save_project"
        /\ call.outcome = "written"
        /\ call'.fn = "load_project"
        /\ call'.from_disk)
          => Fields(project', heap') = Fields(project, heap)]_vars

-----------------------------------------------------------------------------
(* Claims about audio *)

\* thread t takes the step of playing its next active note, and the Sound of
\* that note is not played
SynthesisFails(t) ==
    /\ threads[t].pc = "play"
    /\ threads[t].active # << >>
    /\ threads'[t] # threads[t]
    /\ sound' # [pitch |-> Head(threads[t].active).pitch,
                 velocity |-> Head(threads[t].active).velocity]

\* C16: a play_midi_note that raises during a tick changes neither
\* is_playing, the status, the position, the project nor the notes of any
\* track; the thread goes on with the other active notes of the tick, and
\* after the last of them with the advance of the position.
C16_SynthesisFailureSwallowed ==
    [][\A t \in ThreadIds :
          /\ SynthesisFails(t) =>
                /\ UNCHANGED <<is_playing, status, playback_position, project,
                               heap, current_track>>
                /\ threads'[t].pc = "play"
                /\ threads'[t].active = Tail(threads[t].active)
          /\ (/\ threads[t].pc = "play"
              /\ threads[t].active = << >>
              /\ threads'[t] # threads[t])
                => threads'[t].pc = "read"]_vars

\* C16 witness: in a tick with two active notes a synthesis raised, the
\* other note was played after it, and the thread has gone on to advance the
\* position.
C16_Witness ==
    \E t \in ThreadIds :
        /\ threads[t].raised
        /\ threads[t].pc = "write"
        /\ sound # NoSound
        /\ Len(heap[current_track].notes) = 2
        /\ sound.pitch = heap[current_track].notes[2].pitch

\* the places of a thread inside play_notes_at_position
AudioPcs == {"notes", "check", "for", "scan", "play"}

\* a thread as the transport sees it: where it is in the tick loop, the call
\* of play_notes_at_position counting as the place after it
LoopView(thread) ==
    [pc |-> IF thread.pc \in AudioPcs THEN "read" ELSE thread.pc,
     max_beats |-> thread.max_beats,
     reg |-> thread.reg]

\* C17: without the audio backend no synthesis call has an effect, and the
\* steps a thread takes inside play_notes_at_position when audio is there
\* change nothing of the transport or the project: the thread is then where
\* it is without audio, after the publication of the tick and before the
\* advance of the position.
C17_AudioLeavesTransportAlone ==
    [][/\ ~audio_enabled =>
             /\ sound' = sound
             /\ \A t \in ThreadIds : threads'[t].pc \notin AudioPcs
       /\ \A t \in ThreadIds :
             (threads[t].pc \in AudioPcs /\ threads'[t] # threads[t]) =>
                 /\ LoopView(threads'[t]) = LoopView(threads[t])
                 /\ UNCHANGED <<is_playing, status, playback_position,
                                pending, project, current_track>>
                 /\ \A i \in 1..Len(project.tracks) :
                       heap'[project.tracks[i]] = heap[project.tracks[i]]]_vars

-----------------------------------------------------------------------------
(* Claims about the notes of the project *)

\* the notes of the tracks of the project
ProjectNotes ==
    UNION {{heap[project.tracks[i]].notes[j] :
               j \in DOMAIN heap[project.tracks[i]].notes} :
           i \in DOMAIN project.tracks}

\* C18: whatever the editing operations called (pencil clicks with any
\* quantize and snap-to-scale setting, chord generation, rhythm application,
\* project load), every note of every track of the project has
\* duration > 0, 0 <= pitch <= 127, 1 <= velocity <= 127 and start_time >= 0.
C18_NotesWellFormed ==
    \A note \in ProjectNotes :
        /\ note.duration > 0
        /\ 0 <= note.pitch /\ note.pitch <= 127
        /\ 1 <= note.velocity /\ note.velocity <= 127
        /\ note.start_time >= 0

\* the step is a call of File > New or of load_project: the project is
\* replaced
ProjectReplaced ==
    calls' # calls /\ call'.fn \in {"on_new_project", "load_project"}

\* the step is a click with the eraser
EraserClick ==
    /\ calls' # calls
    /\ call'.fn = "on_piano_roll_click"
    /\ call'.tool = "eraser"

\* the step is a chord generation that gets as far as the notes
ChordsCall ==
    /\ calls' # calls
    /\ call'.fn = "on_generate_chords"
    /\ call'.chords # << >>
    /\ current_track # None

\* the tracks that are in the project before and after the step
TracksKept ==
    {k \in TrackIds : /\ \E i \in DOMAIN project.tracks : project.tracks[i] = k
                      /\ \E i \in DOMAIN project'.tracks : project'.tracks[i] = k}

\* every note of before is still there in after, at its place in the list,
\* moved in time at most
StillIn(before, after) ==
    /\ Len(after) >= Len(before)
    /\ \A i \in 1..Len(before) :
          [after[i] EXCEPT !.start_time = 0] = [before[i] EXCEPT !.start_time = 0]

\* C19 as stated: in a project that is not replaced, every step other than
\* an eraser click and the removal of a track, the chord and rhythm helpers
\* included, leaves every note of every track in its track.
C19_OnlyExplicitRemoval ==
    [][~(ProjectReplaced \/ EraserClick) =>
          \A k \in TracksKept : StillIn(heap[k].notes, heap'[k].notes)]_vars

\* C19 amended: chord generation is a removal too.  A chord generation with
\* a non-empty progression leaves in the current track the notes of the
\* chords and nothing else, and the other tracks as they were; every step
\* other than that, an eraser click, the removal of a track and the
\* replacement of the project leaves every note of every track in its track.
C19_RemovalExplicitOrByChords ==
    [][/\ ~(ProjectReplaced \/ EraserClick \/ ChordsCall) =>
             \A k \in TracksKept : StillIn(heap[k].notes, heap'[k].notes)
       /\ ChordsCall =>
             /\ heap'[current_track].notes = ProgressionNotes(call'.chords, 0)
             /\ \A k \in TracksKept \ {current_track} : heap'[k] = heap[k]]_vars

\* chords were generated in a track whose note, saved before, is gone
C19_Witness ==
    /\ call.fn = "on_generate_chords"
    /\ call.chords # << >>
    /\ project.tracks = <<1>>
    /\ current_track = 1
    /\ heap[1].notes = ProgressionNotes(call.chords, 0)
    /\ disk.json = "object"
    /\ Len(disk.data.tracks) = 1
    /\ Len(disk.data.tracks[1].notes) = 1
    /\ \A i \in DOMAIN heap[1].notes :
          heap[1].notes[i].pitch # disk.data.tracks[1].notes[1].pitch

-----------------------------------------------------------------------------
(* Claims about the worker threads *)

\* the thread is inside the body of the while loop of playback_loop: it has
\* passed both tests and will advance the position
InTick(t) == threads[t].pc \in {"publish", "read", "write"} \cup AudioPcs

\* the playback_loop threads that are alive and advancing the position
Workers == {t \in ThreadIds : Alive(t) /\ InTick(t)}

\* C20: at most one playback_loop thread is alive and advancing the position
\* at any time, whatever the play, pause and stop calls and the steps of the
\* threads between them, a play() before the thread of the run before has
\* seen is_playing False included.
C20_AtMostOneWorker == Cardinality(Workers) <= 1

\* a thread passes the tests of the while loop and begins the body of a tick
TickBegins(t) ==
    threads[t].pc = "test_position" /\ threads'[t].pc = "publish"

\* C21: the flag is tested at the top of each tick, so no thread begins the
\* body of a tick (publication, synthesis, advance of the position) once
\* is_playing is cleared; after stop() with no play() after it every thread
\* then ends.
C21_NoTickOnceStopped ==
    [][\A t \in ThreadIds : TickBegins(t) => is_playing]_vars

\* a thread ends a tick: it has stored the position and sleeps
TickEnds(t) == threads[t].pc = "write" /\ threads'[t].pc = "test"

\* C22: the tempo of the project is read afresh on every tick: the time a
\* thread sleeps at the end of a tick that began with the tempo the project
\* has now is computed from that tempo, also when the tempo was changed
\* after the thread was started.
C22_SleepFollowsTempo ==
    [][\A t \in ThreadIds :
          (TickEnds(t) /\ threads[t].tempo_at_top = project.tempo) =>
              SleepInterval(threads[t].time_per_beat)
                 = SleepInterval(TimePerBeat(project.tempo))]_vars

\* a thread has gone through the list and has its active_notes
ScanEnds(t) == threads[t].pc = "scan" /\ threads'[t].pc = "play"

\* C23: on every tick the notes forwarded to play_midi_note are, of the
\* notes of all the tracks of the project, the ones with
\* start_time <= position < start_time + duration, and no others.
C23_ActiveNotesOfAllTracks ==
    [][\A t \in ThreadIds :
          ScanEnds(t) =>
              NotesOf(threads'[t].active)
                 = {note \in ProjectNotes :
                       ActiveAt(note, threads[t].position)}]_vars

\* C24: the notes a thread examines in one tick are the list of the track as
\* it was at one instant of the tick, whatever the UI thread adds or removes
\* meanwhile: a note that is in the list from the beginning of the loop over
\* it to its end is examined.
C24_NoNoteSkipped ==
    [][\A t \in ThreadIds :
          ScanEnds(t) => threads[t].kept \subseteq NotesOf(threads[t].seen)]_vars

\* the step is a call of play() (pause included) or of stop()
TransportCall == calls' # calls /\ call'.fn \in {"on_play", "on_stop"}

\* the step is a step of a playback_loop thread
LoopStep == calls' = calls /\ threads' # threads

\* the step is the event loop running a callback a thread posted, the
\* on_stop at the end of the project included
CallbackRuns == Len(pending') < Len(pending)

\* C25: the tick loop and play(), pause and stop() only read the project:
\* their steps leave the tracks of the project, the notes and the attributes
\* of every track, and the tempo, time signature, key and length as they
\* were.
C25_TransportReadsOnly ==
    [][(TransportCall \/ LoopStep \/ CallbackRuns) =>
          /\ project' = project
          /\ \A i \in DOMAIN project.tracks :
                heap'[project.tracks[i]] = heap[project.tracks[i]]]_vars

\* stop() was called while a thread, having gone through the notes of the
\* track, was about to play one
C25_Witness ==
    /\ call.fn = "on_stop"
    /\ call.was_playing
    /\ heap[current_track].notes # << >>
    /\ \E t \in ThreadIds :
          threads[t].pc = "play" /\ threads[t].active # << >>

\* the on_stop a thread posted at the end of the project is yet to run
StopPending == \E i \in DOMAIN pending : pending[i].callback = "on_stop"

\* C26: whenever is_playing is true a playback_loop thread is alive or an
\* automatic stop is pending, whatever the UI does meanwhile (File > New
\* included): the transport is never Playing with nothing to advance the
\* position or to stop it.
C26_PlayingHasWorker ==
    is_playing => (\E t \in ThreadIds : Alive(t)) \/ StopPending

\* the event loop runs an on_stop posted by a thread of a run before, while
\* the transport is in the run the last play() started
StaleStopRuns ==
    /\ Len(pending') < Len(pending)
    /\ pending[NextCallback(pending)].callback = "on_stop"
    /\ is_playing
    /\ pending[NextCallback(pending)].run # calls

\* C27: the on_stop a thread posts when it ends acts on the run of that
\* thread only: when it runs during a run that a later play() started, that
\* run goes on playing and its position is not reset.
C27_StopOfItsOwnRun ==
    [][StaleStopRuns =>
          is_playing' /\ playback_position' = playback_position]_vars

-----------------------------------------------------------------------------
(* Claims about the tracks *)

\* C28: after __init__ and after every add track, remove track, track
\* selection, File > New and load_project, failed or not, current_track is
\* one of the tracks of the project, which has at least one track.
C28_CurrentTrackInProject ==
    /\ project.tracks # << >>
    /\ \E i \in DOMAIN project.tracks : project.tracks[i] = current_track

\* the step is an eraser click, recorded, at the place of this note
ErasedAt(note) ==
    /\ EraserClick
    /\ call'.click.x = note.start_time
    /\ call'.click.y = 2 * note.pitch

\* C29: an eraser click at the start_time and the pitch of a note of the
\* current track removes that note, whatever the quantize setting and
\* snap-to-scale are at the click and were when the note was drawn.
C29_EraserRemovesClickedNote ==
    [][\A note \in NotesOf(heap[current_track].notes) :
          ErasedAt(note) => note \notin NotesOf(heap'[current_track].notes)]_vars

\* the pitches a MIDI note number can be
MidiRange == 0..127

\* C30: for every pitch in 0..127, every key root in 0..11 and every
\* built-in scale, snap_to_scale returns a pitch in 0..127.
C30_SnappedPitchInMidiRange ==
    (/\ call.fn = "snap_to_scale"
     /\ result # NoResult
     /\ call.midi_note \in MidiRange
     /\ call.key_root \in KeyRoots
     /\ call.scale_name \in DOMAIN scales) => result[1] \in MidiRange

=============================================================================
